---- MODULE Spec2Model ----
(***************************************************************************)
(* Model of consul-help (src/src/main.rs): one run of the command-line     *)
(* tool that compares the properties stored under a Consul prefix with the *)
(* properties of a YAML document.                                          *)
(*                                                                         *)
(* Rust Strings are modelled as sequences of one-character strings, so     *)
(* that str::replace, format! and the decimal rendering of numbers are     *)
(* computed character by character.                                        *)
(***************************************************************************)
EXTENDS Integers, Sequences, FiniteSets, TLC

\* ------------------------------------------------------------------ bounds
\* longest list returned by the remote store in one run
MaxRemote == 2
\* longest list handed to the differencer when it is checked on its own
MaxList == 2
\* largest number of entries of a mapping / elements of a sequence in the
\* generated documents
MaxWidth == 2

\* ------------------------------------------------------------ Rust strings
Range(s) == {s[i] : i \in 1..Len(s)}

\* all sequences over S of length 0..n
RECURSIVE SeqsUpTo(_, _)
SeqsUpTo(S, n) == IF n = 0 THEN {<<>>} ELSE [1..n -> S] \cup SeqsUpTo(S, n - 1)

Digit(d) == <<"0", "1", "2", "3", "4", "5", "6", "7", "8", "9">>[d + 1]

RECURSIVE NatToString(_)
NatToString(n) ==
    IF n < 10 THEN <<Digit(n)>>
    ELSE NatToString(n \div 10) \o <<Digit(n % 10)>>

\* Display of an integer (usize index, serde_yaml integer Number)
IntToString(n) == IF n < 0 THEN <<"-">> \o NatToString(-n) ELSE NatToString(n)

\* str::replace(pat, ""): every non-overlapping occurrence of pat, found
\* left to right, is removed (pat is never empty here: it ends with "/")
RECURSIVE StrReplaceWithEmpty(_, _)
StrReplaceWithEmpty(s, pat) ==
    IF Len(s) < Len(pat) THEN s
    ELSE IF SubSeq(s, 1, Len(pat)) = pat
         THEN StrReplaceWithEmpty(SubSeq(s, Len(pat) + 1, Len(s)), pat)
         ELSE <<s[1]>> \o StrReplaceWithEmpty(Tail(s), pat)

\* --------------------------------------------------------- serde_yaml Value
Null == [kind |-> "Null"]
Bool(b) == [kind |-> "Bool", b |-> b]
Number(n) == [kind |-> "Number", n |-> n]
String(s) == [kind |-> "String", s |-> s]
Sequence(items) == [kind |-> "Sequence", items |-> items]
\* a Mapping keeps its entries in document order; entries are <<key, value>>
\* with pairwise different keys, and a key is itself a Value
Mapping(entries) == [kind |-> "Mapping", entries |-> entries]
Tagged(tag, value) == [kind |-> "Tagged", tag |-> tag, value |-> value]

ConsulProperties(key, value) == [key |-> key, value |-> value]

\* {:?} of a str whose characters need no escape
DebugStr(s) == <<"\"">> \o s \o <<"\"">>

\* {:?} as the Debug implementations of serde_yaml 0.9 print it: a Value by
\* its variant, a Mapping as a map whose boolean, number and string keys are
\* printed bare, a TaggedValue as a struct
RECURSIVE DebugValue(_), DebugList(_, _), DebugEntries(_, _)
DebugKey(k) ==
    CASE k.kind = "Bool" ->
            IF k.b THEN <<"t", "r", "u", "e">> ELSE <<"f", "a", "l", "s", "e">>
      [] k.kind = "Number" -> IntToString(k.n)
      [] k.kind = "String" -> DebugStr(k.s)
      [] OTHER -> DebugValue(k)
DebugValue(v) ==
    CASE v.kind = "Null" -> <<"N", "u", "l", "l">>
      [] v.kind = "Bool" ->
            <<"B", "o", "o", "l", "(">>
            \o (IF v.b THEN <<"t", "r", "u", "e">> ELSE <<"f", "a", "l", "s", "e">>)
            \o <<")">>
      [] v.kind = "Number" ->
            <<"N", "u", "m", "b", "e", "r", "(">> \o IntToString(v.n) \o <<")">>
      [] v.kind = "String" ->
            <<"S", "t", "r", "i", "n", "g", "(">> \o DebugStr(v.s) \o <<")">>
      [] v.kind = "Sequence" ->
            <<"S", "e", "q", "u", "e", "n", "c", "e", " ">>
            \o <<"[">> \o DebugList(v.items, 1) \o <<"]">>
      [] v.kind = "Mapping" ->
            <<"M", "a", "p", "p", "i", "n", "g", " ">>
            \o <<"{">> \o DebugEntries(v.entries, 1) \o <<"}">>
      [] v.kind = "Tagged" ->
            <<"T", "a", "g", "g", "e", "d", "V", "a", "l", "u", "e", " ", "{", " ">>
            \o <<"t", "a", "g", ":", " ", "!">> \o v.tag
            \o <<",", " ", "v", "a", "l", "u", "e", ":", " ">> \o DebugValue(v.value)
            \o <<" ", "}">>
DebugList(items, i) ==
    IF i > Len(items) THEN <<>>
    ELSE (IF i > 1 THEN <<",", " ">> ELSE <<>>)
         \o DebugValue(items[i]) \o DebugList(items, i + 1)
DebugEntries(entries, i) ==
    IF i > Len(entries) THEN <<>>
    ELSE (IF i > 1 THEN <<",", " ">> ELSE <<>>)
         \o DebugKey(entries[i][1]) \o <<":", " ">> \o DebugValue(entries[i][2])
         \o DebugEntries(entries, i + 1)

\* flatten_yaml calls value_to_string on leaves only, so the Sequence and
\* Mapping arms are never taken by the program
value_to_string(value) ==
    CASE value.kind = "Null" -> <<"n", "u", "l", "l">>
      [] value.kind = "Bool" ->
            IF value.b THEN <<"t", "r", "u", "e">> ELSE <<"f", "a", "l", "s", "e">>
      [] value.kind = "Number" -> IntToString(value.n)
      [] value.kind = "String" -> value.s
      [] value.kind = "Sequence" -> <<"[">> \o DebugList(value.items, 1) \o <<"]">>
      [] value.kind = "Mapping" -> DebugValue(value)
      [] value.kind = "Tagged" -> DebugValue(value)

\* prefix of a mapping entry with a string key
MappingPrefix(prefix, key_str) ==
    IF prefix = <<>> THEN key_str ELSE prefix \o <<"/">> \o key_str

\* the sequence prefix with a separator before the bracket
SequencePrefixWithSlash(prefix, index) ==
    (IF prefix = <<>> THEN <<>> ELSE prefix \o <<"/">>)
    \o <<"[">> \o IntToString(index) \o <<"]">>

\* prefix of the sequence element at position index (counted from 0)
SequencePrefix(prefix, index) ==
    prefix \o <<"[">> \o IntToString(index) \o <<"]">>

\* flatten_yaml(value, properties, prefix) is the content of properties when
\* the call returns; the two loops are FlattenMapping and FlattenSequence,
\* i being the position of the next entry to visit
RECURSIVE flatten_yaml(_, _, _), FlattenMapping(_, _, _, _), FlattenSequence(_, _, _, _)
RECURSIVE FlattenMappingAnyKey(_, _, _, _)

\* the flattener with an empty mapping or sequence taken as a leaf
flatten_yaml_empty_leaf(value, properties, prefix) ==
    CASE value.kind = "Mapping" /\ value.entries # <<>> ->
            FlattenMapping(value.entries, 1, properties, prefix)
      [] value.kind = "Sequence" /\ value.items # <<>> ->
            FlattenSequence(value.items, 1, properties, prefix)
      [] OTHER -> Append(properties, <<prefix, value_to_string(value)>>)

\* the mapping loop with a key that is no string rendered as text instead of
\* skipped
FlattenMappingAnyKey(entries, i, properties, prefix) ==
    IF i > Len(entries) THEN properties
    ELSE LET key == entries[i][1]
             value == entries[i][2]
             key_str == IF key.kind = "String" THEN key.s ELSE value_to_string(key)
         IN FlattenMappingAnyKey(entries, i + 1,
                flatten_yaml(value, properties, MappingPrefix(prefix, key_str)),
                prefix)

flatten_yaml(value, properties, prefix) ==
    CASE value.kind = "Mapping" -> FlattenMapping(value.entries, 1, properties, prefix)
      [] value.kind = "Sequence" -> FlattenSequence(value.items, 1, properties, prefix)
      [] OTHER -> Append(properties, <<prefix, value_to_string(value)>>)
FlattenMapping(entries, i, properties, prefix) ==
    IF i > Len(entries) THEN properties
    ELSE LET key == entries[i][1]
             value == entries[i][2]
         IN IF key.kind = "String"
            THEN FlattenMapping(entries, i + 1,
                     flatten_yaml(value, properties, MappingPrefix(prefix, key.s)),
                     prefix)
            ELSE FlattenMapping(entries, i + 1, properties, prefix)
FlattenSequence(items, i, properties, prefix) ==
    IF i > Len(items) THEN properties
    ELSE FlattenSequence(items, i + 1,
             flatten_yaml(items[i], properties, SequencePrefix(prefix, i - 1)),
             prefix)

\* the Vec<(String, String)> of flatten_yaml turned into ConsulProperties
TuplesToProperties(tuples) ==
    [i \in 1..Len(tuples) |-> ConsulProperties(tuples[i][1], tuples[i][2])]

\* ------------------------------------------------------------- differencer
\* every order in which the elements of a HashSet can be iterated
Orderings(S) ==
    {s \in [1..Cardinality(S) -> S] : \A i, j \in 1..Cardinality(S) : s[i] = s[j] => i = j}

\* the differencer with its arguments used the other way round
difference_reversed(list1, list2) == Orderings(Range(list2) \ Range(list1))

\* the differencer as a filter of list1, which keeps repeated pairs
difference_by_filter(list1, list2) ==
    {SelectSeq(list1, LAMBDA p : p \notin Range(list2))}

\* the possible results of difference_between_properties(list1, list2): the
\* iteration order of the HashSet `difference` is unspecified
difference_between_properties(list1, list2) ==
    LET set1 == Range(list1)
        set2 == Range(list2)
    IN Orderings(set1 \ set2)

\* ----------------------------------------------------------- remote loader
\* Option<Base64String> of one entry and its conversion to a String
NoValue == [kind |-> "None", text |-> <<>>]
NotUtf8Value == [kind |-> "NotUtf8", text |-> <<>>]
Utf8Value(text) == [kind |-> "Utf8", text |-> text]

KVPair(key, value) == [key |-> key, value |-> value]

\* item.value.unwrap().try_into().unwrap() panics
ValuePanics(item) == item.value.kind # "Utf8"

\* the closure of the map at the end of load_consul_properties
StripKey(key, app_prefix) == StrReplaceWithEmpty(key, app_prefix \o <<"/">>)

ResponseToProperties(response, app_prefix) ==
    [i \in 1..Len(response) |->
        ConsulProperties(StripKey(response[i].key, app_prefix), response[i].value.text)]

\* ---------------------------------------------------------------- reporter
Msg(m, arg) == [site |-> "msg", msg |-> m, text |-> arg]
\* println!("{}={}", item.key, item.value), without the newline println adds
KvLine(item) == [site |-> "kv", msg |-> "", text |-> item.key \o <<"=">> \o item.value]
\* the line of the file without its newline
FileLineUnterminated(item) == item.key \o <<"=">> \o item.value

\* format!("{}={}\n", item.key, item.value)
FileLine(item) == item.key \o <<"=">> \o item.value \o <<"\n">>

KvLines(items) == [i \in 1..Len(items) |-> KvLine(items[i])]

\* Option<PathBuf>
NoPath == [is_some |-> FALSE, path |-> ""]
SomePath(p) == [is_some |-> TRUE, path |-> p]

NoFile == [exists |-> FALSE, content |-> <<>>]
FileWith(content) == [exists |-> TRUE, content |-> content]

\* ------------------------------------------------------------------- state
VARIABLES
    app_prefix,      \* args.app_prefix
    input_property,  \* args.input_property
    output_file,     \* args.output_file
    kv_store,        \* what kv::read answers: an error, or the list of entries
    doc_file,        \* the file at args.input_property
    out_file,        \* the file at args.output_file
    out_file_before, \* the file at args.output_file when the program started
    out_ops,         \* the operations performed on args.output_file, in order
    stdout,          \* the lines printed, in order
    stderr,          \* the panic message, "" while there is none
    result,          \* main: result
    yml_properties,  \* main: yml_properties
    difference,      \* main: difference
    next_item,       \* position in difference of the next item to write
    pc               \* position of main

vars == <<app_prefix, input_property, output_file, kv_store, doc_file, out_file,
          out_file_before, out_ops, stdout, stderr, result, yml_properties, difference, next_item, pc>>

args == <<app_prefix, input_property, output_file>>
environment == <<kv_store, doc_file, out_file_before>>

\* ------------------------------------------------------------------ inputs
AppPrefix == <<"a", "p", "p">>

\* keys stored under the prefix "app"
StoredKeys ==
    { <<"a", "p", "p", "/", "x">>,
      <<"a", "p", "p", "/", "a", "/", "b">>,
      <<"a", "p", "p", "/", "x", "/", "y">>,
      <<"a", "p", "p", "/", "x", "/", "a", "p", "p", "/", "y">>,
      <<"a", "p", "p", "s", "/", "a", "p", "p", "/", "z">> }

StoredValues == {Utf8Value(<<"1">>), Utf8Value(<<"5">>), NoValue, NotUtf8Value}

\* the store holds one value per key
Responses ==
    {r \in SeqsUpTo({KVPair(k, v) : k \in StoredKeys, v \in StoredValues}, MaxRemote) :
        \A i, j \in 1..Len(r) : r[i].key = r[j].key => i = j}

KvStores ==
    {[status |-> "error", response |-> <<>>]}
    \cup {[status |-> "ok", response |-> r] : r \in Responses}

Str(c) == String(<<c>>)

\* {"a": {"b": 1, "c": [true, "x"]}}
ExampleDoc ==
    Mapping(<< <<Str("a"),
                 Mapping(<< <<Str("b"), Number(1)>>,
                            <<Str("c"), Sequence(<<Bool(TRUE), Str("x")>>)>> >>)>> >>)

\* documents read by the whole program
MainDocs ==
    { ExampleDoc,
      Mapping(<<>>),
      Sequence(<<>>),
      Number(1),
      Mapping(<< <<Str("x"), Number(1)>> >>),
      Mapping(<< <<Str("x"), Number(5)>>, <<Str("a"), Mapping(<< <<Str("b"), Number(1)>> >>)>> >>),
      Mapping(<< <<Str("x"), Mapping(<< <<Str("y"), Number(1)>> >>)>>, <<Number(1), Str("x")>> >>),
      Mapping(<< <<Str("a"), Mapping(<< <<Str("b"), Str("5")>> >>)>>, <<Str("x"), Str("1")>> >>),
      Mapping(<< <<Str("x"), Sequence(<<>>)>>, <<Str("a"), Mapping(<<>>)>> >>) }

DocFiles(docs) ==
    {[status |-> s, yaml |-> Null] : s \in {"cannot_open", "cannot_read", "cannot_parse"}}
    \cup {[status |-> "ok", yaml |-> d] : d \in docs}

OldContent == <<"o", "=", "1", "\n">>

\* ------------------------------------------------------------------ Init
Init ==
    /\ app_prefix = AppPrefix
    /\ input_property \in {NoPath, SomePath("input.yml")}
    /\ output_file \in {NoPath, SomePath("out.properties")}
    /\ kv_store \in KvStores
    /\ doc_file \in DocFiles(MainDocs)
    /\ out_file \in {NoFile, FileWith(OldContent)}
    /\ out_file_before = out_file
    /\ out_ops = <<>>
    /\ stdout = <<>>
    /\ stderr = ""
    /\ result = <<>>
    /\ yml_properties = <<>>
    /\ difference = <<>>
    /\ next_item = 1
    /\ pc = "load_consul"

Panic(message) ==
    /\ stderr' = message
    /\ pc' = "panicked"

\* ----------------------------------------------------------------- actions
\* main line 39: load_consul_properties(&args.consul_host, &args.app_prefix)
LoadConsulProperties ==
    /\ pc = "load_consul"
    /\ stdout' = Append(stdout, Msg("Loading properties from consul host", app_prefix))
    /\ IF kv_store.status = "error"
       THEN /\ Panic("called Result::unwrap() on an Err value")
            /\ UNCHANGED result
       ELSE IF \E i \in 1..Len(kv_store.response) : ValuePanics(kv_store.response[i])
       THEN /\ Panic(LET first == CHOOSE i \in 1..Len(kv_store.response) :
                                    /\ ValuePanics(kv_store.response[i])
                                    /\ \A j \in 1..(i - 1) : ~ValuePanics(kv_store.response[j])
                     IN IF kv_store.response[first].value.kind = "None"
                        THEN "called Option::unwrap() on a None value"
                        ELSE "called Result::unwrap() on an Err value")
            /\ UNCHANGED result
       ELSE /\ result' = ResponseToProperties(kv_store.response, app_prefix)
            /\ pc' = "match_input"
            /\ UNCHANGED stderr
    /\ UNCHANGED <<args, environment, out_file, out_ops, yml_properties, difference, next_item>>

\* the match with the notice printed and the comparison done all the same
MatchInputPropertyFallThrough ==
    /\ pc = "match_input"
    /\ IF input_property.is_some
       THEN UNCHANGED stdout
       ELSE stdout' = Append(stdout, Msg("No input property file provided.", <<>>))
    /\ pc' = "difference"
    /\ UNCHANGED <<args, environment, out_file, out_ops, stderr, result, yml_properties,
                   difference, next_item>>

\* main lines 41-42 and 65-67: match &args.input_property
MatchInputProperty ==
    /\ pc = "match_input"
    /\ IF input_property.is_some
       THEN /\ pc' = "load_yml"
            /\ UNCHANGED stdout
       ELSE /\ stdout' = Append(stdout, Msg("No input property file provided.", <<>>))
            /\ pc' = "done"
    /\ UNCHANGED <<args, environment, out_file, out_ops, stderr, result, yml_properties,
                   difference, next_item>>

\* main line 43: load_yml_properties(input_file)
LoadYmlProperties ==
    /\ pc = "load_yml"
    /\ stdout' = Append(stdout, Msg("Loading properties from file", <<>>))
    /\ CASE doc_file.status = "cannot_open" ->
                Panic("Unable to open file") /\ UNCHANGED yml_properties
         [] doc_file.status = "cannot_read" ->
                Panic("Unable to read file") /\ UNCHANGED yml_properties
         [] doc_file.status = "cannot_parse" ->
                Panic("Unable to parse YAML") /\ UNCHANGED yml_properties
         [] OTHER ->
                /\ yml_properties' = TuplesToProperties(flatten_yaml(doc_file.yaml, <<>>, <<>>))
                /\ pc' = "difference"
                /\ UNCHANGED stderr
    /\ UNCHANGED <<args, environment, out_file, out_ops, result, difference, next_item>>

\* main line 44: difference_between_properties(result, yml_properties)
Difference ==
    /\ pc = "difference"
    /\ \E d \in difference_between_properties(result, yml_properties) : difference' = d
    /\ pc' = "report"
    /\ UNCHANGED <<args, environment, out_file, out_ops, stdout, stderr, result,
                   yml_properties, next_item>>

\* the report without the test for an empty difference
ReportWithoutEmptyTest ==
    /\ pc = "report"
    /\ stdout' = stdout \o KvLines(difference)
    /\ pc' = "output_file"
    /\ UNCHANGED <<args, environment, out_file, out_ops, stderr, result, yml_properties,
                   difference, next_item>>

\* main lines 46-51: the "no differences" message, or one line per item
Report ==
    /\ pc = "report"
    /\ IF difference = <<>>
       THEN /\ stdout' = Append(stdout, Msg("No differences found.", <<>>))
            /\ pc' = "done"
       ELSE /\ stdout' = stdout \o KvLines(difference)
            /\ pc' = "output_file"
    /\ UNCHANGED <<args, environment, out_file, out_ops, stderr, result, yml_properties,
                   difference, next_item>>

\* main lines 53-54 and 60-62: File::create(output_file), which creates the
\* file or truncates it, or fails
OpenOutputFile ==
    /\ pc = "output_file"
    /\ IF output_file.is_some
       THEN \/ /\ out_file' = FileWith(<<>>)
               /\ out_ops' = Append(out_ops, "create")
               /\ next_item' = 1
               /\ pc' = "write"
               /\ UNCHANGED <<stdout, stderr>>
            \/ /\ Panic("Unable to create file")
               /\ UNCHANGED <<out_file, out_ops, next_item, stdout>>
       ELSE /\ stdout' = Append(stdout, Msg("No output file provided.", <<>>))
            /\ pc' = "done"
            /\ UNCHANGED <<out_file, out_ops, next_item, stderr>>
    /\ UNCHANGED <<args, environment, result, yml_properties, difference>>

\* main lines 55-59: one iteration of the loop; a write_all that fails may
\* have written the first bytes of the line
WriteItem ==
    /\ pc = "write"
    /\ next_item <= Len(difference)
    /\ LET line == FileLine(difference[next_item])
       IN \/ /\ out_file' = FileWith(out_file.content \o line)
             /\ out_ops' = Append(out_ops, "write")
             /\ next_item' = next_item + 1
             /\ UNCHANGED <<pc, stderr>>
          \/ \E n \in 0..(Len(line) - 1) :
                /\ out_file' = FileWith(out_file.content \o SubSeq(line, 1, n))
                /\ out_ops' = IF n > 0 THEN Append(out_ops, "write") ELSE out_ops
                /\ Panic("Unable to write to file")
                /\ UNCHANGED next_item
    /\ UNCHANGED <<args, environment, stdout, result, yml_properties, difference>>

\* main lines 59-60: the loop is over, the file is closed
CloseOutputFile ==
    /\ pc = "write"
    /\ next_item > Len(difference)
    /\ pc' = "done"
    /\ UNCHANGED <<args, environment, out_file, out_ops, stdout, stderr, result,
                   yml_properties, difference, next_item>>

Next ==
    \/ LoadConsulProperties
    \/ MatchInputProperty
    \/ LoadYmlProperties
    \/ Difference
    \/ Report
    \/ OpenOutputFile
    \/ WriteItem
    \/ CloseOutputFile

Spec == Init /\ [][Next]_vars

\* ------------------------------------------- the document loader on its own
\* scalars and keys of the generated documents
Leaves == {Null, Bool(TRUE), Number(1), Str("x")}
DocKeys == {Str("a"), Str("b"), Number(1), Bool(TRUE), Null}

\* the entry lists of a mapping: at most MaxWidth entries, no key twice
EntryLists(keys, values) ==
    {e \in SeqsUpTo(keys \X values, MaxWidth) :
        \A i, j \in 1..Len(e) : e[i][1] = e[j][1] => i = j}

\* sequences and mappings of scalars
FlatContainers ==
    {Sequence(items) : items \in SeqsUpTo(Leaves, MaxWidth)}
    \cup {Mapping(e) : e \in EntryLists(DocKeys, Leaves)}

\* a container c of scalars as it is, or one level down: under a string
\* key, under a key that is a number, a sequence or a mapping, and as a
\* sequence element
Nest(shape, c) ==
    CASE shape = "root" -> c
      [] shape = "a" -> Mapping(<< <<Str("a"), c>> >>)
      [] shape = "b, a" -> Mapping(<< <<Str("b"), Null>>, <<Str("a"), c>> >>)
      [] shape = "1, b" -> Mapping(<< <<Number(1), c>>, <<Str("b"), Str("x")>> >>)
      [] shape = "[null]" -> Mapping(<< <<Sequence(<<Null>>), c>> >>)
      [] shape = "{}, a" -> Mapping(<< <<Mapping(<<>>), c>>, <<Str("a"), c>> >>)
      [] shape = "[1, c]" -> Sequence(<<Number(1), c>>)

NestedDocs ==
    {Nest(shape, c) :
        shape \in {"root", "a", "b, a", "1, b", "[null]", "{}, a", "[1, c]"},
        c \in FlatContainers}

\* documents with a tagged node, a number of several digits, a negative
\* number, false
OtherDocs ==
    { ExampleDoc,
      Tagged(<<"t">>, Str("x")),
      Mapping(<< <<Str("a"), Tagged(<<"t">>, Number(1))>>, <<Str("b"), Number(12)>> >>),
      Sequence(<<Number(-3), Bool(FALSE), Tagged(<<"t">>, Null)>>),
      Mapping(<< <<Str("a"), Sequence(<<Number(1)>>)>>,
                 <<Str("b"), Mapping(<< <<Bool(FALSE), Number(1)>> >>)>> >>) }

Docs == (Leaves \cup OtherDocs) \cup NestedDocs

Property(k, v) == ConsulProperties(k, v)

\* remote snapshots handed to the differencer after the document
YmlResults ==
    { <<>>,
      <<Property(<<"a">>, <<"1">>)>>,
      <<Property(<<"a", "/", "b">>, <<"1">>), Property(<<"b">>, <<"x">>)>> }

\* main at line 43, the remote snapshot loaded
InitYml ==
    /\ app_prefix = AppPrefix
    /\ input_property = SomePath("input.yml")
    /\ output_file = NoPath
    /\ kv_store = [status |-> "ok", response |-> <<>>]
    /\ doc_file \in DocFiles(Docs)
    /\ out_file = NoFile
    /\ out_file_before = out_file
    /\ out_ops = <<>>
    /\ stdout = <<>>
    /\ stderr = ""
    /\ result \in YmlResults
    /\ yml_properties = <<>>
    /\ difference = <<>>
    /\ next_item = 1
    /\ pc = "load_yml"

NextYml == LoadYmlProperties \/ Difference

SpecYml == InitYml /\ [][NextYml]_vars

\* ----------------------------------------------- the differencer on its own
DiffProps ==
    {Property(k, v) :
        k \in {<<"d", "b", "/", "h", "o", "s", "t">>, <<"d", "b", "/", "p", "o", "r", "t">>},
        v \in {<<"x">>, <<"5", "4", "3", "2">>}}

\* main at line 44, with any two lists
InitDiff ==
    /\ app_prefix = AppPrefix
    /\ input_property = SomePath("input.yml")
    /\ output_file = NoPath
    /\ kv_store = [status |-> "ok", response |-> <<>>]
    /\ doc_file = [status |-> "ok", yaml |-> Null]
    /\ out_file = NoFile
    /\ out_file_before = out_file
    /\ out_ops = <<>>
    /\ stdout = <<>>
    /\ stderr = ""
    /\ result \in SeqsUpTo(DiffProps, MaxList)
    /\ yml_properties \in SeqsUpTo(DiffProps, MaxList)
    /\ difference = <<>>
    /\ next_item = 1
    /\ pc = "difference"

NextDiff == Difference

SpecDiff == InitDiff /\ [][NextDiff]_vars

\* =================================================================== claims
NoDuplicates(s) == \A i, j \in 1..Len(s) : s[i] = s[j] => i = j
HasDuplicates(s) == ~NoDuplicates(s)

\* C1: the difference handed to the reporter holds, each once, exactly the
\* pairs of the remote snapshot (result, the first argument) that are not in
\* the document snapshot (yml_properties, the second argument), a pair being
\* the key together with the value; so no pair that is only in the document
\* is reported and a key whose value differs is reported with the remote value
C1_RemoteMinusDocument ==
    pc = "report" =>
        /\ NoDuplicates(difference)
        /\ \A p \in Range(result) \cup Range(yml_properties) \cup Range(difference) :
              p \in Range(difference) <=> (p \in Range(result) /\ p \notin Range(yml_properties))
        /\ \A i \in 1..Len(difference) :
              /\ difference[i] \notin Range(yml_properties)
              /\ \E j \in 1..Len(result) :
                    result[j].key = difference[i].key /\ result[j].value = difference[i].value

\* C1 witness: the remote snapshot {(db/host, x), (db/port, 5432)} against the
\* document snapshot {(db/host, x), (db/port, x)}: only the remote value of
\* db/port is reported
C1_Witness ==
    /\ pc = "report"
    /\ result = << Property(<<"d", "b", "/", "h", "o", "s", "t">>, <<"x">>),
                   Property(<<"d", "b", "/", "p", "o", "r", "t">>, <<"5", "4", "3", "2">>) >>
    /\ yml_properties = << Property(<<"d", "b", "/", "h", "o", "s", "t">>, <<"x">>),
                           Property(<<"d", "b", "/", "p", "o", "r", "t">>, <<"x">>) >>
    /\ difference = << Property(<<"d", "b", "/", "p", "o", "r", "t">>, <<"5", "4", "3", "2">>) >>

\* C9: the difference of a list with itself is empty, and the difference of
\* a list with the empty list is the list with repeated pairs collapsed
C9_SelfAndEmpty ==
    pc = "report" =>
        /\ (yml_properties = result => difference = <<>>)
        /\ (yml_properties = <<>> =>
              /\ Range(difference) = Range(result)
              /\ Len(difference) = Cardinality(Range(result)))

\* C9 witness: a list with a repeated pair against the empty list, where
\* the other direction gives a different (empty) difference
C9_Witness ==
    /\ pc = "report"
    /\ yml_properties = <<>>
    /\ Len(result) = MaxList
    /\ HasDuplicates(result)
    /\ Len(difference) = 1
    /\ <<>> \in difference_between_properties(yml_properties, result)

\* ----------------------------------------------------------- the flattener
\* the document read by load_yml_properties, once it is flattened
Flattened == pc \in {"difference", "report"} /\ doc_file.status = "ok"

KeyStep(key) == [map |-> TRUE, key |-> key, index |-> 0]
IndexStep(i) == [map |-> FALSE, key |-> <<>>, index |-> i]

\* the paths from the root v to its leaves (the nodes that are neither a
\* mapping nor a sequence), through string keys and sequence positions
RECURSIVE LeafPaths(_)
LeafPaths(v) ==
    CASE v.kind = "Mapping" ->
            UNION {{<<KeyStep(v.entries[i][1].s)>> \o p : p \in LeafPaths(v.entries[i][2])} :
                     i \in {j \in 1..Len(v.entries) : v.entries[j][1].kind = "String"}}
      [] v.kind = "Sequence" ->
            UNION {{<<IndexStep(i - 1)>> \o p : p \in LeafPaths(v.items[i])} :
                     i \in 1..Len(v.items)}
      [] OTHER -> {<<>>}

RECURSIVE NodeAt(_, _)
NodeAt(v, path) ==
    IF path = <<>> THEN v
    ELSE IF path[1].map
         THEN LET i == CHOOSE j \in 1..Len(v.entries) : v.entries[j][1] = String(path[1].key)
              IN NodeAt(v.entries[i][2], Tail(path))
         ELSE NodeAt(v.items[path[1].index + 1], Tail(path))

\* the key of a path as C2 builds it, step by step from the empty prefix
RECURSIVE PathKey(_, _)
PathKey(prefix, path) ==
    IF path = <<>> THEN prefix
    ELSE IF path[1].map
         THEN PathKey(IF prefix = <<>> THEN path[1].key
                      ELSE prefix \o <<"/">> \o path[1].key,
                      Tail(path))
         ELSE PathKey(prefix \o <<"[">> \o IntToString(path[1].index) \o <<"]">>, Tail(path))

\* a scalar rendered as text
ScalarText(v) ==
    CASE v.kind = "Null" -> <<"n", "u", "l", "l">>
      [] v.kind = "Bool" -> IF v.b THEN <<"t", "r", "u", "e">> ELSE <<"f", "a", "l", "s", "e">>
      [] v.kind = "Number" -> IntToString(v.n)
      [] v.kind = "String" -> v.s

\* a tree of string-keyed mappings, sequences and scalars
RECURSIVE IsPlainTree(_)
IsPlainTree(v) ==
    CASE v.kind = "Mapping" ->
            \A i \in 1..Len(v.entries) :
                v.entries[i][1].kind = "String" /\ IsPlainTree(v.entries[i][2])
      [] v.kind = "Sequence" -> \A i \in 1..Len(v.items) : IsPlainTree(v.items[i])
      [] OTHER -> v.kind \in {"Null", "Bool", "Number", "String"}

PathProperty(doc, path) == Property(PathKey(<<>>, path), ScalarText(NodeAt(doc, path)))

\* C2: a document of string-keyed mappings, sequences and scalars flattens to
\* one pair per scalar leaf and nothing else (each pair is emitted as often
\* as there are leaves it belongs to); its key is built along the path of the
\* leaf (key, "/" + key, "[" + i + "]") and its value is the scalar as text;
\* {"a": {"b": 1, "c": [true, "x"]}} gives (a/b, 1), (a/c[0], true), (a/c[1], x)
C2_OnePairPerScalarLeaf ==
    (Flattened /\ IsPlainTree(doc_file.yaml)) =>
        LET doc == doc_file.yaml
            expected == {PathProperty(doc, p) : p \in LeafPaths(doc)}
        IN /\ Range(yml_properties) = expected
           /\ \A q \in expected :
                 Cardinality({i \in 1..Len(yml_properties) : yml_properties[i] = q})
                    = Cardinality({p \in LeafPaths(doc) : PathProperty(doc, p) = q})
           /\ doc = ExampleDoc =>
                 /\ Len(yml_properties) = 3
                 /\ Range(yml_properties) =
                       { Property(<<"a", "/", "b">>, <<"1">>),
                         Property(<<"a", "/", "c", "[", "0", "]">>, <<"t", "r", "u", "e">>),
                         Property(<<"a", "/", "c", "[", "1", "]">>, <<"x">>) }

\* C2 witness: the example document is flattened
C2_Witness ==
    /\ Flattened
    /\ doc_file.yaml = ExampleDoc
    /\ Len(yml_properties) = 3
    /\ yml_properties[2].key = <<"a", "/", "c", "[", "0", "]">>

\* the document without the mapping entries whose key is no string
RECURSIVE Prune(_)
Prune(v) ==
    CASE v.kind = "Mapping" ->
            LET kept == SelectSeq(v.entries, LAMBDA e : e[1].kind = "String")
            IN Mapping([i \in 1..Len(kept) |-> <<kept[i][1], Prune(kept[i][2])>>])
      [] v.kind = "Sequence" -> Sequence([i \in 1..Len(v.items) |-> Prune(v.items[i])])
      [] OTHER -> v

\* C8: a mapping entry whose key is no string does not make the flattener
\* fail and adds nothing: the document flattens to what it flattens to with
\* every such entry (and the subtree under it) removed, the entries with a
\* string key being flattened as usual
C8_NonStringKeySkipped ==
    /\ (pc = "panicked" => doc_file.status # "ok")
    /\ Flattened =>
          /\ yml_properties = TuplesToProperties(flatten_yaml(Prune(doc_file.yaml), <<>>, <<>>))
          /\ \A i \in 1..Len(yml_properties) :
                \E p \in LeafPaths(Prune(doc_file.yaml)) :
                    yml_properties[i].key = PathKey(<<>>, p)

\* C8 witness: a mapping with a subtree of two leaves under the key 1 and a
\* scalar under the key "b" flattens to the pair of "b" alone
C8_Witness ==
    /\ Flattened
    /\ doc_file.yaml = Mapping(<< <<Number(1), Sequence(<<Number(1), Str("x")>>)>>,
                                  <<Str("b"), Str("x")>> >>)
    /\ yml_properties = <<Property(<<"b">>, <<"x">>)>>

\* the leaves reached through string keys and sequence positions, counted
RECURSIVE CountLeaves(_), CountFrom(_, _, _)
CountLeaves(v) ==
    CASE v.kind = "Mapping" -> CountFrom(v.entries, 1, TRUE)
      [] v.kind = "Sequence" -> CountFrom(v.items, 1, FALSE)
      [] OTHER -> 1
CountFrom(children, i, is_map) ==
    IF i > Len(children) THEN 0
    ELSE (IF is_map
          THEN (IF children[i][1].kind = "String" THEN CountLeaves(children[i][2]) ELSE 0)
          ELSE CountLeaves(children[i]))
         + CountFrom(children, i + 1, is_map)

\* C10: an empty mapping or sequence adds no pair: as many pairs are emitted
\* as there are leaves that are no containers; a document that is an empty
\* mapping or an empty sequence flattens to nothing, and when the document
\* flattens to nothing every remote property is reported
C10_EmptyContainersEmitNothing ==
    Flattened =>
        /\ Len(yml_properties) = CountLeaves(doc_file.yaml)
        /\ (doc_file.yaml \in {Mapping(<<>>), Sequence(<<>>)} => yml_properties = <<>>)
        /\ (pc = "report" /\ yml_properties = <<>>) =>
              /\ Range(difference) = Range(result)
              /\ Len(difference) = Cardinality(Range(result))

\* C10 witness: the empty mapping against two remote properties
C10_Witness ==
    /\ pc = "report"
    /\ doc_file.status = "ok"
    /\ doc_file.yaml = Mapping(<<>>)
    /\ yml_properties = <<>>
    /\ Len(result) = 2
    /\ Len(difference) = 2

\* ------------------------------------------------------------ the whole run
OutputUntouched == out_ops = <<>> /\ out_file = out_file_before

NoKvLinePrinted == \A i \in 1..Len(stdout) : stdout[i].site # "kv"

PrintedKvLines == SelectSeq(stdout, LAMBDA l : l.site = "kv")

\* the bytes of the given printed lines, println's newline included
RECURSIVE PrintedBytes(_)
PrintedBytes(lines) ==
    IF lines = <<>> THEN <<>>
    ELSE lines[1].text \o <<"\n">> \o PrintedBytes(Tail(lines))

\* the difference has been computed in this run
DifferenceComputed ==
    \/ pc = "report"
    \/ pc \in {"output_file", "write", "done"} /\ input_property.is_some
    \/ pc = "panicked" /\ stderr \in {"Unable to create file", "Unable to write to file"}

\* C3: when the computed difference is empty the program prints the "no
\* differences" message and ends successfully, and the file at the output
\* path is neither created nor truncated nor written
C3_EmptyDifference ==
    (DifferenceComputed /\ difference = <<>>) =>
        /\ pc \in {"report", "done"}
        /\ OutputUntouched
        /\ NoKvLinePrinted
        /\ stderr = ""
        /\ pc = "done" => stdout[Len(stdout)] = Msg("No differences found.", <<>>)

\* C3 witness: a run with a remote property, an output path and a file
\* already there has ended on an empty difference
C3_Witness ==
    /\ pc = "done"
    /\ input_property.is_some
    /\ output_file.is_some
    /\ out_file = FileWith(OldContent)
    /\ result # <<>>
    /\ difference = <<>>
    /\ stdout[Len(stdout)].msg = "No differences found."

StartsWith(s, pat) == Len(s) >= Len(pat) /\ SubSeq(s, 1, Len(pat)) = pat

\* the key with a leading pat removed, and left as it is without one
StripLeading(key, pat) ==
    IF StartsWith(key, pat) THEN SubSeq(key, Len(pat) + 1, Len(key)) ELSE key

\* C4: the key of each remote property is the stored key with only a leading
\* prefix + "/" removed
C4_OnlyLeadingPrefixRemoved ==
    pc = "match_input" =>
        /\ Len(result) = Len(kv_store.response)
        /\ \A i \in 1..Len(result) :
              result[i].key = StripLeading(kv_store.response[i].key, app_prefix \o <<"/">>)

RemoteLoadFails ==
    \/ kv_store.status = "error"
    \/ \E i \in 1..Len(kv_store.response) : ValuePanics(kv_store.response[i])

LoadingMsg == Msg("Loading properties from consul host", app_prefix)
NoInputMsg == Msg("No input property file provided.", <<>>)

\* without an input path no document is read, no difference is computed or
\* printed and the output file is left alone
NoComparison ==
    /\ pc \in {"load_consul", "match_input", "done", "panicked"}
    /\ yml_properties = <<>>
    /\ difference = <<>>
    /\ \A i \in 1..Len(stdout) : stdout[i] \in {LoadingMsg, NoInputMsg}
    /\ OutputUntouched

\* C5 as stated: every run without an input path loads the remote snapshot,
\* then prints the notice and ends successfully, without any comparison
C5_AlwaysEndsSuccessfully ==
    ~input_property.is_some =>
        /\ NoComparison
        /\ pc \in {"done", "panicked"} =>
              /\ pc = "done"
              /\ stdout = <<LoadingMsg, NoInputMsg>>

\* C5, amended: in a run without an input path whose remote load succeeds,
\* the notice is printed after the snapshot is loaded and the run ends
\* successfully; the run panics only when the remote load fails, and then
\* prints no notice; in both cases there is no comparison
C5_NoInputRun ==
    ~input_property.is_some =>
        /\ NoComparison
        /\ pc = "done" =>
              /\ stdout = <<LoadingMsg, NoInputMsg>>
              /\ stderr = ""
              /\ ~RemoteLoadFails
              /\ result = ResponseToProperties(kv_store.response, app_prefix)
        /\ pc = "panicked" =>
              /\ RemoteLoadFails
              /\ stdout = <<LoadingMsg>>
        /\ pc = "match_input" => ~RemoteLoadFails /\ stdout = <<LoadingMsg>>

\* C5 witness: a run without an input path, with an output path and a file
\* already there, has loaded two remote properties and ended
C5_Witness ==
    /\ pc = "done"
    /\ ~input_property.is_some
    /\ output_file.is_some
    /\ out_file = FileWith(OldContent)
    /\ Len(result) = 2
    /\ stdout[Len(stdout)] = NoInputMsg

\* C6: when the run panics, no key=value line has been printed and the
\* output file has been neither created nor modified
C6_NoPartialOutput ==
    pc = "panicked" => NoKvLinePrinted /\ OutputUntouched

\* C7: when the difference is not empty, an output path is given and every
\* write succeeds, the output file holds exactly the key=value lines printed,
\* in the order printed, each ended by a newline, and nothing of what it held
\* before
C7_FileHoldsPrintedLines ==
    (pc = "done" /\ input_property.is_some /\ output_file.is_some /\ difference # <<>>) =>
        /\ out_file.exists
        /\ out_file.content = PrintedBytes(PrintedKvLines)
        /\ Len(PrintedKvLines) = Len(difference)
        /\ \A i \in 1..Len(difference) :
              PrintedKvLines[i].text = difference[i].key \o <<"=">> \o difference[i].value

\* C7 witness: two differences written over a file that held something else
C7_Witness ==
    /\ pc = "done"
    /\ output_file.is_some
    /\ out_file_before = FileWith(OldContent)
    /\ Len(difference) = 2
    /\ out_ops = <<"create", "write", "write">>
    /\ out_file.content = FileLine(difference[1]) \o FileLine(difference[2])

====
